---- MODULE Spec2Model ----
(***************************************************************************)
(* Model of aimet_torch/v2/experimental/quantsim_utils.py:                 *)
(*   propagate_output_encodings / _propagate_output_encodings              *)
(*   set_matmul_second_input_producer_to_8bit_symmetric                    *)
(* over a connected graph (ops, products) and a tree of quantized modules. *)
(*                                                                         *)
(* Python values are encoded as follows.                                   *)
(*   None            0 (ops, modules and quantizers are numbered from 1)   *)
(*   Product         [producer, idx, shape]; producer is an index into     *)
(*                   ordered_ops or None, idx is the position among the    *)
(*                   producer's outputs (or the number of a root input),   *)
(*                   shape is FALSE when Product.shape is None             *)
(*   Op              [module, dotted_name, inputs, input_ops, outputs];    *)
(*                   module is what Op.get_module() returns                *)
(*   dotted names    sequences of name components (naturals); the model's  *)
(*                   own name is the component 0                           *)
(*   quantized module  identified by its name inside the model, <<k>>,     *)
(*                   written k; its type is module_type[k]                 *)
(*   quantizer       an identifier; its fields live in qattrs              *)
(* Python list indices are 0-based; sequences here are 1-based, so list    *)
(* element i is sequence element i + 1.                                    *)
(***************************************************************************)
EXTENDS Integers, Sequences, FiniteSets, TLC

VARIABLES connected_graph, module_type, input_quantizers, output_quantizers,
          qattrs, err, last

vars == <<connected_graph, module_type, input_quantizers, output_quantizers,
          qattrs, err, last>>

None == 0

NoError == "NoError"

\* sim.connected_graph when the simulator holds no traced graph
NoGraph == [ordered_ops |-> <<>>, module_to_name |-> <<>>, traced |-> FALSE]

\* The largest number of ops in a connected graph.
MaxOps == 3


model_name == 0

_MATH_INVARIANT_OPS ==
    {"Reshape", "Permute", "Shape", "Cast", "ChannelShuffle", "Identity"}

_is_math_invariant_op(type) == type \in _MATH_INVARIANT_OPS

\* (mutant) the position among the inputs is taken to be the first
IndexFirst(seq, x) == 0

\* list.index: the 0-based position of the first element equal to x
Index(seq, x) ==
    (CHOOSE i \in 1..Len(seq) :
        seq[i] = x /\ \A j \in 1..(i - 1) : seq[j] # x) - 1

\* (mutant) the ops are visited in topological order
ReversedForgotten(seq) == seq

\* reversed(seq)
Reversed(seq) == [i \in 1..Len(seq) |-> seq[Len(seq) + 1 - i]]

(***************************************************************************)
(* _propagate_output_encodings                                             *)
(***************************************************************************)

\* utils.get_named_module(qmodel, module_name): the quantized module that
\* the wrapped model holds under that name
get_named_module(module_names) == module_names[1]

get_qmodule(cg, op) ==
    LET orig_module == cg.ordered_ops[op].module IN
    IF orig_module = None THEN None
    ELSE LET full_name == cg.module_to_name[orig_module]
             module_names == Tail(full_name) IN
         IF module_names = <<>> THEN None
         ELSE get_named_module(module_names)

\* (mutant) a concat is given the slot of the tensor's position
ConcatSlotPositional(type, i) == i

\* The slot a root input is written to: isinstance(qmodule, custom.Concat)
ConcatSlot(type, i) == IF type = "Concat" THEN 0 ELSE i

\* The slot a produced tensor is written to: isinstance(qmodule, custom.Split)
SplitSlot(type, i) == IF type = "Split" THEN 0 ELSE i

\* (mutant) the walk stops at every op that has a quantized module
PropagateFurtherOnlyUnwrapped(types, qmodule) == qmodule = None

\* (mutant) the walk goes on through every producer
PropagateFurtherAlways(types, qmodule) == TRUE

\* "if not qmodule or _is_math_invariant_op(qmodule)"
PropagateFurther(types, qmodule) ==
    qmodule = None \/ _is_math_invariant_op(types[qmodule])

\* qmodule.input_quantizers[i] = qtzr
SetInputQuantizer(st, qmodule, i, qtzr) ==
    LET acc == [module |-> qmodule, side |-> "in", index |-> i]
        st1 == [st EXCEPT !.touched = @ \cup {acc}] IN
    IF i >= Len(st.inq[qmodule])
    THEN [st1 EXCEPT !.err = "IndexError"]
    ELSE [st1 EXCEPT !.inq[qmodule][i + 1] = qtzr]

\* if qmodule.output_quantizers[i] is not None:
\*     qmodule.output_quantizers[i] = qtzr
SetOutputQuantizer(st, qmodule, i, qtzr) ==
    LET acc == [module |-> qmodule, side |-> "out", index |-> i]
        st1 == [st EXCEPT !.touched = @ \cup {acc}] IN
    IF i >= Len(st.outq[qmodule])
    THEN [st1 EXCEPT !.err = "IndexError"]
    ELSE IF st.outq[qmodule][i + 1] # None
         THEN [st1 EXCEPT !.outq[qmodule][i + 1] = qtzr]
         ELSE st1

RECURSIVE _set_src_qtzr(_, _, _, _, _, _)
RECURSIVE SetSrcOfInputs(_, _, _, _, _, _)

\* for input in op.inputs[k..]: _set_src_qtzr(input, consumer=op, qtzr=qtzr)
SetSrcOfInputs(cg, types, st, op, k, qtzr) ==
    IF k > Len(cg.ordered_ops[op].inputs) \/ st.err # NoError THEN st
    ELSE SetSrcOfInputs(cg, types,
             _set_src_qtzr(cg, types, st, cg.ordered_ops[op].inputs[k], op, qtzr),
             op, k + 1, qtzr)

_set_src_qtzr(cg, types, st, x, consumer, qtzr) ==
    LET producer == x.producer IN
    IF producer = None
    THEN IF ~x.shape THEN st
         ELSE LET i == Index(cg.ordered_ops[consumer].inputs, x)
                  qmodule == get_qmodule(cg, consumer) IN
              IF qmodule = None THEN st
              ELSE SetInputQuantizer(st, qmodule,
                                     ConcatSlot(types[qmodule], i), qtzr)
    ELSE LET qmodule == get_qmodule(cg, producer)
             st1 == IF qmodule # None
                    THEN LET i == Index(cg.ordered_ops[producer].outputs, x) IN
                         SetOutputQuantizer(st, qmodule,
                                            SplitSlot(types[qmodule], i), qtzr)
                    ELSE st IN
         IF st1.err = NoError /\ PropagateFurther(types, qmodule)
         THEN SetSrcOfInputs(cg, types, st1, producer, 1, qtzr)
         ELSE st1

\* (mutant) only an empty list of output quantizers is refused
NoOutputQuantizer(quantizers) == Len(quantizers) = 0

\* "len(qmodule.output_quantizers) != 1"
NotOneOutputQuantizer(quantizers) == Len(quantizers) # 1

\* One iteration of "for op in reversed(cg.ordered_ops)"
VisitOp(cg, types, st, op, condition) ==
    LET qmodule == get_qmodule(cg, op) IN
    IF qmodule = None THEN st
    ELSE IF ~condition[qmodule] THEN st
    ELSE IF NotOneOutputQuantizer(st.outq[qmodule])
         THEN [st EXCEPT !.err = "RuntimeError: found n output quantizers"]
    ELSE LET qtzr == st.outq[qmodule][1]
             acc == [module |-> qmodule, side |-> "out", index |-> 0]
             st1 == [st EXCEPT !.touched = @ \cup {acc}] IN
         IF qtzr = None
         THEN [st1 EXCEPT !.err = "RuntimeError: output_quantizers[0] == None"]
         ELSE SetSrcOfInputs(cg, types, st1, op, 1, qtzr)

RECURSIVE VisitOps(_, _, _, _, _)
VisitOps(cg, types, st, order, condition) ==
    IF order = <<>> \/ st.err # NoError THEN st
    ELSE VisitOps(cg, types, VisitOp(cg, types, st, Head(order), condition),
                  Tail(order), condition)

_propagate_output_encodings(cg, types, inq, outq, condition) ==
    LET st0 == [inq |-> inq, outq |-> outq, err |-> NoError, touched |-> {}] IN
    IF cg = NoGraph
    THEN [st0 EXCEPT !.err = "AttributeError"]
    ELSE VisitOps(cg, types, st0,
                  Reversed([i \in 1..Len(cg.ordered_ops) |-> i]), condition)

(***************************************************************************)
(* propagate_output_encodings                                              *)
(***************************************************************************)

Modules == DOMAIN module_type

\* The three forms of the second argument, each as the condition it becomes:
\* a module type, a quantized module, a predicate over modules.
ConditionOfType(types, module_type_arg) ==
    [m \in DOMAIN types |-> types[m] = module_type_arg]

ConditionOfModule(types, qmodule_arg) ==
    [m \in DOMAIN types |-> m = qmodule_arg]

ConditionOf(types, arg) ==
    IF arg.form = "type" THEN ConditionOfType(types, arg.value)
    ELSE IF arg.form = "module" THEN ConditionOfModule(types, arg.value)
    ELSE arg.value

\* (mutant) the check for a traced graph is left out
GraphMissingUnchecked(cg) == FALSE

\* "if not sim.connected_graph"
GraphMissing(cg) == cg = NoGraph

propagate_output_encodings(cg, types, inq, outq, arg) ==
    LET condition == ConditionOf(types, arg) IN
    IF GraphMissing(cg)
    THEN [inq |-> inq, outq |-> outq, touched |-> {},
          err |-> "RuntimeError: no traced graph"]
    ELSE _propagate_output_encodings(cg, types, inq, outq, condition)

ModuleTypes == {"Conv", "Reshape", "Concat", "Split", "Multi", "MatMul"}

TypeArgs == [form : {"type"}, value : ModuleTypes]

ModuleArgs == [form : {"module"}, value : Modules]

PredicateArgs == [form : {"predicate"}, value : [Modules -> BOOLEAN]]

Propagate(arg) ==
    LET r == propagate_output_encodings(connected_graph, module_type,
                 input_quantizers, output_quantizers, arg) IN
    /\ input_quantizers' = r.inq
    /\ output_quantizers' = r.outq
    /\ err' = r.err
    /\ last' = [call |-> "propagate", form |-> arg.form,
                condition |-> ConditionOf(module_type, arg),
                inq |-> input_quantizers, outq |-> output_quantizers,
                qattrs |-> qattrs, touched |-> r.touched, targets |-> <<>>]
    /\ UNCHANGED <<connected_graph, module_type, qattrs>>

(***************************************************************************)
(* set_matmul_second_input_producer_to_8bit_symmetric                      *)
(***************************************************************************)

\* quant_modules: the quantized modules of sim.model by name
QuantModules(types) ==
    [name \in {<<m>> : m \in {k \in DOMAIN types : types[k] # "Functional"}}
        |-> name[1]]

\* dict.get(key)
DictGet(dict, key) == IF key \in DOMAIN dict THEN dict[key] ELSE None

\* op.dotted_name.startswith(f'{model_name}.')
StartsWithModelName(dotted_name) ==
    Len(dotted_name) > 1 /\ dotted_name[1] = model_name

get_connected_graph_op(cg, name) ==
    CHOOSE op \in DOMAIN cg.ordered_ops :
        cg.ordered_ops[op].module # None
        /\ cg.module_to_name[cg.ordered_ops[op].module] = <<model_name>> \o name

\* (mutant) the traversal goes on into the last input op
LastInputOp(input_ops) == input_ops[Len(input_ops)]

\* "get_closest_producer(op.input_ops[0])"
FirstInputOp(input_ops) == input_ops[1]

RECURSIVE get_closest_producer(_, _, _, _)
get_closest_producer(cg, quant_modules, outq, op) ==
    LET dotted_name == cg.ordered_ops[op].dotted_name
        input_ops == cg.ordered_ops[op].input_ops
        quant_module ==
            IF StartsWithModelName(dotted_name)
            THEN DictGet(quant_modules, Tail(dotted_name))
            ELSE DictGet(quant_modules, dotted_name) IN
    IF quant_module # None
    THEN IF outq[quant_module][1] # None THEN quant_module
         ELSE IF Len(input_ops) = 1
              THEN get_closest_producer(cg, quant_modules, outq, input_ops[1])
              ELSE None
    ELSE IF input_ops = <<>> THEN None
    ELSE get_closest_producer(cg, quant_modules, outq, FirstInputOp(input_ops))

\* (mutant) a quantizer already in the slot is not taken as the target
TargetOfSearchOnly(cg, quant_modules, inq, outq, module) ==
    LET input_op == cg.ordered_ops[get_connected_graph_op(cg, <<module>>)]
                        .inputs[2].producer
        closest == IF inq[module][2] = None /\ input_op # None
                   THEN get_closest_producer(cg, quant_modules, outq, input_op)
                   ELSE None IN
    [searched |-> inq[module][2] = None /\ input_op # None,
     start |-> input_op,
     closest |-> closest,
     target |-> IF closest # None THEN outq[closest][1] ELSE None]

\* The target quantizer of a MatMul: the one in its second input slot, or
\* output quantizer 0 of the closest producer of its second input
TargetOf(cg, quant_modules, inq, outq, module) ==
    LET target_quantizer == inq[module][2]
        matmul_op == get_connected_graph_op(cg, <<module>>)
        input_op == cg.ordered_ops[matmul_op].inputs[2].producer
        searched == target_quantizer = None /\ input_op # None
        closest == IF searched
                   THEN get_closest_producer(cg, quant_modules, outq, input_op)
                   ELSE None IN
    [searched |-> searched,
     start |-> input_op,
     closest |-> closest,
     target |-> IF target_quantizer # None THEN target_quantizer
                ELSE IF closest # None THEN outq[closest][1]
                ELSE None]

\* (mutant) the quantizer is left unsigned
SetTo8BitSymmetricUnsigned(quantizer) ==
    [quantizer EXCEPT !.bitwidth = 8, !.symmetric = TRUE]

\* target_quantizer.bitwidth = 8; .symmetric = True; .signed = True
SetTo8BitSymmetric(quantizer) ==
    [quantizer EXCEPT !.bitwidth = 8, !.symmetric = TRUE, !.signed = TRUE]

RECURSIVE MatMulLoop(_, _, _, _, _, _)
\* "for name, module in quant_modules.items()", from module k on
MatMulLoop(cg, types, inq, outq, st, k) ==
    IF k > Len(types) \/ st.err # NoError THEN st
    ELSE IF types[k] # "MatMul" THEN MatMulLoop(cg, types, inq, outq, st, k + 1)
    ELSE IF Len(inq[k]) # 2
         THEN [st EXCEPT !.err = "ValueError"]
    ELSE LET t == TargetOf(cg, QuantModules(types), inq, outq, k)
             st1 == [st EXCEPT !.targets = @ @@ (k :> t)] IN
         MatMulLoop(cg, types, inq, outq,
                    IF t.target # None
                    THEN [st1 EXCEPT !.qattrs[t.target] = SetTo8BitSymmetric(@)]
                    ELSE st1,
                    k + 1)

set_matmul_second_input_producer_to_8bit_symmetric(cg, types, inq, outq, attrs) ==
    LET st0 == [qattrs |-> attrs, err |-> NoError, targets |-> <<>>] IN
    IF cg = NoGraph THEN [st0 EXCEPT !.err = "AttributeError"]
    ELSE MatMulLoop(cg, types, inq, outq, st0, 1)

SetMatMul ==
    LET r == set_matmul_second_input_producer_to_8bit_symmetric(
                 connected_graph, module_type, input_quantizers,
                 output_quantizers, qattrs) IN
    /\ qattrs' = r.qattrs
    /\ err' = r.err
    /\ last' = [call |-> "matmul", form |-> "none", condition |-> <<>>,
                inq |-> input_quantizers, outq |-> output_quantizers,
                qattrs |-> qattrs, touched |-> {}, targets |-> r.targets]
    /\ UNCHANGED <<connected_graph, module_type, input_quantizers,
                   output_quantizers>>

(***************************************************************************)
(* The simulators the checks start from: a traced graph of at most MaxOps  *)
(* ops in topological order and the quantized modules of its ops.          *)
(***************************************************************************)

\* The quantizer a slot holds when the simulator is built.
QOut(k, i) == 10 * k + i + 1
QIn(k, i) == 10 * k + i + 6

RootInputs == {[producer |-> None, idx |-> 0, shape |-> TRUE],
               [producer |-> None, idx |-> 1, shape |-> FALSE]}

NumOutputs(kind) == IF kind \in {"Split", "Multi"} THEN 2 ELSE 1

OutputsOf(k, kind) ==
    [i \in 1..NumOutputs(kind) |-> [producer |-> k, idx |-> i - 1, shape |-> TRUE]]

\* The products an op placed after the ops of kinds ks can read
Available(ks) ==
    RootInputs \cup UNION {{OutputsOf(k, ks[k])[i] : i \in 1..NumOutputs(ks[k])}
                           : k \in 1..Len(ks)}

RECURSIVE SelectSeq2(_, _)
\* [inp.producer for inp in inputs if inp.producer]
SelectSeq2(inputs, k) ==
    IF k > Len(inputs) THEN <<>>
    ELSE (IF inputs[k].producer # None THEN <<inputs[k].producer>> ELSE <<>>)
         \o SelectSeq2(inputs, k + 1)

MakeOp(k, kind, inputs) ==
    [module |-> IF kind = "Functional" THEN None ELSE k,
     dotted_name |-> IF kind = "Functional" THEN <<model_name, 0, k>>
                     ELSE <<model_name, k>>,
     inputs |-> inputs,
     input_ops |-> SelectSeq2(inputs, 1),
     outputs |-> OutputsOf(k, kind)]

\* An op design: the kind of the op, whether its module's output
\* quantizers are enabled, whether its second input quantizer is, and its
\* inputs.
DesignsOfOp(options, inputLists) ==
    {[kind |-> o.kind, out |-> o.out, inq |-> o.inq, inputs |-> inp]
        : o \in options, inp \in inputLists}

KindsOf(d) == [k \in 1..Len(d) |-> d[k].kind]

\* The outputs of the last of the ops of kinds ks (the tensor root input for
\* the first op)
MainInputs(ks) ==
    IF ks = <<>> THEN {x \in RootInputs : x.shape}
    ELSE {OutputsOf(Len(ks), ks[Len(ks)])[i] : i \in 1..NumOutputs(ks[Len(ks)])}

\* Linear chains: each op reads one output of the op before it.
ChainInputs(ks) == {<<x>> : x \in MainInputs(ks)}

\* Each op reads an output of the op before it, alone or followed by the
\* tensor root input; the first op reads the tensor root input, alone or
\* after the non-tensor one.
SpineInputs(ks) ==
    IF ks = <<>>
    THEN {<<x>> : x \in MainInputs(ks)}
         \cup {<<y, x>> : x \in MainInputs(ks), y \in RootInputs \ MainInputs(ks)}
    ELSE {<<x>> : x \in MainInputs(ks)}
         \cup {<<x, y>> : x \in MainInputs(ks), y \in {r \in RootInputs : r.shape}}

\* Each op reads the output of the op before it, alone or followed by the
\* output of the op before that one; the first op reads the tensor root
\* input.
SkipInputs(ks) ==
    LET skipped == IF Len(ks) < 2 THEN {}
                   ELSE MainInputs(SubSeq(ks, 1, Len(ks) - 1))
    IN  {<<x>> : x \in MainInputs(ks)}
        \cup {<<x, y>> : x \in MainInputs(ks), y \in skipped}

\* Each op reads the output of the op before it, alone, followed by the
\* output of the op before that one, or after the tensor root input; the
\* first op reads the tensor root input, alone or followed by the other
\* root input.
FeedInputs(ks) ==
    IF ks = <<>>
    THEN {<<x>> : x \in MainInputs(ks)}
         \cup {<<x, y>> : x \in MainInputs(ks), y \in RootInputs \ MainInputs(ks)}
    ELSE SkipInputs(ks)
         \cup {<<y, x>> : x \in MainInputs(ks), y \in {r \in RootInputs : r.shape}}

InputsFor(wiring, ks) ==
    IF wiring = "chain" THEN ChainInputs(ks)
    ELSE IF wiring = "feed" THEN FeedInputs(ks)
    ELSE IF wiring = "skip" THEN SkipInputs(ks)
    ELSE SpineInputs(ks)

\* The designs of the op placed after the ops of design d; a MatMul has two
\* inputs
NextDesigns(d, options, wiring) ==
    {c \in DesignsOfOp(options, InputsFor(wiring, KindsOf(d))) :
        c.kind = "MatMul" => Len(c.inputs) = 2}

GraphOf(d) ==
    [ordered_ops |-> [k \in 1..Len(d) |-> MakeOp(k, d[k].kind, d[k].inputs)],
     module_to_name |-> [k \in 1..Len(d) |-> <<model_name, k>>],
     traced |-> TRUE]

InputQuantizersOf(d) ==
    [k \in 1..Len(d) |->
        IF d[k].kind = "Functional" THEN <<>>
        ELSE [i \in 1..(IF d[k].kind = "Concat" THEN 1 ELSE Len(d[k].inputs)) |->
                 IF d[k].inq /\ i = 2 THEN QIn(k, i - 1) ELSE None]]

OutputQuantizersOf(d) ==
    [k \in 1..Len(d) |->
        IF d[k].kind = "Functional" THEN <<>>
        ELSE [i \in 1..(IF d[k].kind = "Multi" THEN 2 ELSE 1) |->
                 IF d[k].out THEN QOut(k, i - 1) ELSE None]]

\* The quantizers held by the slots
QuantizersOfSlots(inq, outq) ==
    UNION {{inq[k][i] : i \in DOMAIN inq[k]} \cup {outq[k][i] : i \in DOMAIN outq[k]}
           : k \in DOMAIN inq} \ {None}

NoCall == [call |-> "none", form |-> "none", condition |-> <<>>,
           inq |-> <<>>, outq |-> <<>>, qattrs |-> <<>>, touched |-> {},
           targets |-> <<>>]

InitOf(d, traced, attrs) ==
    \E t \in traced, a \in attrs :
        /\ connected_graph = IF t THEN GraphOf(d) ELSE NoGraph
        /\ module_type = KindsOf(d)
        /\ input_quantizers = InputQuantizersOf(d)
        /\ output_quantizers = OutputQuantizersOf(d)
        /\ qattrs = [q \in QuantizersOfSlots(InputQuantizersOf(d),
                                             OutputQuantizersOf(d)) |-> a]
        /\ err = NoError
        /\ last = NoCall

Opt(kind, out, inq) == [kind |-> kind, out |-> out, inq |-> inq]

DefaultAttrs == {[bitwidth |-> 16, symmetric |-> FALSE, signed |-> FALSE]}

RECURSIVE InitFrom(_, _, _, _, _, _)
\* The simulators of the n-op designs that extend design d
InitFrom(d, n, options, wiring, traced, attrs) ==
    IF Len(d) = n THEN InitOf(d, traced, attrs)
    ELSE \E od \in NextDesigns(d, options, wiring) :
            InitFrom(Append(d, od), n, options, wiring, traced, attrs)

\* The simulators of the designs of at most MaxOps ops
InitAll(options, wiring, traced, attrs) ==
    \E n \in 1..MaxOps : InitFrom(<<>>, n, options, wiring, traced, attrs)

(***************************************************************************)
(* Linear chains of convolutions, reshapes and two-output modules, with or *)
(* without a traced graph, under the three forms of                        *)
(* propagate_output_encodings.                                             *)
(***************************************************************************)
ChainOptions ==
    {Opt("Conv", TRUE, FALSE), Opt("Conv", FALSE, FALSE),
     Opt("Reshape", FALSE, FALSE), Opt("Multi", TRUE, FALSE)}

InitChain == InitAll(ChainOptions, "chain", {TRUE, FALSE}, DefaultAttrs)

PropagateType == \E arg \in TypeArgs : Propagate(arg)

PropagateModule == \E arg \in ModuleArgs : Propagate(arg)

PropagatePredicate == \E arg \in PredicateArgs : Propagate(arg)

NextChain == PropagateType \/ PropagateModule \/ PropagatePredicate

SpecChain == InitChain /\ [][NextChain]_vars

(***************************************************************************)
(* Graphs with two-input ops and root inputs at either position, of        *)
(* convolutions, reshapes and functional ops.                              *)
(***************************************************************************)
WalkOptions ==
    {Opt("Functional", FALSE, FALSE), Opt("Conv", TRUE, FALSE),
     Opt("Reshape", FALSE, FALSE), Opt("Reshape", TRUE, FALSE)}

InitWalk == InitAll(WalkOptions, "spine", {TRUE}, DefaultAttrs)

SpecWalk == InitWalk /\ [][PropagateModule]_vars

(***************************************************************************)
(* Properties of propagate_output_encodings on linear chains.              *)
(***************************************************************************)

Propagated == last.call = "propagate"

Traced == connected_graph # NoGraph

Ops == DOMAIN connected_graph.ordered_ops

Matches(m) == module_type[m] # "Functional" /\ last.condition[m]

\* The slots of every module are the ones held before the call
SlotsUnchanged ==
    input_quantizers = last.inq /\ output_quantizers = last.outq

\* The graph A -> Reshape -> B: A has one set output quantizer, B has one
\* input quantizer slot, empty, and the selector matches B
ScenarioAReshapeB ==
    /\ Propagated /\ Traced
    /\ Len(connected_graph.ordered_ops) = 3
    /\ module_type = <<"Conv", "Reshape", "Conv">>
    /\ Len(last.outq[1]) = 1 /\ last.outq[1][1] # None
    /\ last.inq[3] = <<None>>
    /\ last.condition[3]

\* C1 (as stated): in A -> Reshape -> B, a call whose selector matches B
\* sets B's input quantizer slot 0 to the quantizer held by A's output
\* quantizer slot 0.
C1_AsStated ==
    ScenarioAReshapeB => input_quantizers[3][1] = output_quantizers[1][1]

\* C1 (amended): in A -> Reshape -> B where B too has one set output
\* quantizer, a call whose selector matches B sets A's output quantizer
\* slot 0 to the quantizer B's output quantizer slot 0 holds, and leaves
\* B's input quantizer slot 0 empty and B's output quantizer in place.
C1_ProducerTakesConsumersQuantizer ==
    (ScenarioAReshapeB /\ last.outq[3][1] # None)
        => /\ output_quantizers[1] = <<last.outq[3][1]>>
           /\ input_quantizers[3] = <<None>>
           /\ output_quantizers[3] = last.outq[3]

C1_Witness ==
    /\ ScenarioAReshapeB /\ last.outq[3][1] # None
    /\ last.outq[1][1] # last.outq[3][1]
    /\ output_quantizers[1][1] = last.outq[3][1]
    /\ err = NoError

\* A module the selector matches whose output quantizers are not exactly
\* one set quantizer
BadMatch(m) ==
    /\ Matches(m)
    /\ \/ Len(last.outq[m]) # 1
       \/ last.outq[m][1] = None

ModuleSlotsUnchanged(m) ==
    input_quantizers[m] = last.inq[m] /\ output_quantizers[m] = last.outq[m]

\* C3 (as stated): a call whose selector matches a module without exactly
\* one output quantizer fails, and no slot of that module is changed,
\* wherever the module stands among the matching ops.
C3_AsStated ==
    (Propagated /\ Traced)
        => \A m \in Modules :
              BadMatch(m) => err # NoError /\ ModuleSlotsUnchanged(m)

\* C3 (amended): such a call always fails; when no op after the module in
\* topological order matches the selector, the failed call leaves every
\* slot of every module as it was.
C3_FailsAndFirstVisitedLeavesSlots ==
    (Propagated /\ Traced)
        => \A m \in Modules :
              BadMatch(m)
                  => /\ err # NoError
                     /\ (\A k \in Modules : k > m => ~Matches(k))
                            => SlotsUnchanged

C3_Witness ==
    /\ Propagated /\ Traced
    /\ \E m \in Modules :
          /\ BadMatch(m) /\ Len(last.outq[m]) = 2
          /\ \E k \in Modules : k < m /\ Matches(k)
          /\ \A k \in Modules : k > m => ~Matches(k)
    /\ err = "RuntimeError: found n output quantizers"
    /\ SlotsUnchanged

\* C7: without a traced graph the call fails with the no-traced-graph
\* error before any quantizer slot is read or written, for each of the
\* three forms of the selector.
C7_NoGraphFailsFirst ==
    (Propagated /\ ~Traced)
        => /\ err = "RuntimeError: no traced graph"
           /\ last.touched = {}
           /\ SlotsUnchanged

C7_Witness ==
    /\ Propagated /\ ~Traced
    /\ last.form = "module"
    /\ \E m \in Modules : Matches(m) /\ ~BadMatch(m)
    /\ err = "RuntimeError: no traced graph"

\* A linear chain in which every op either matches the selector and has
\* exactly one set output quantizer, or is a math-invariant module the
\* selector does not match; at least two ops match.
MatchingChain ==
    /\ Propagated /\ Traced
    /\ \A m \in Modules :
          \/ Matches(m) /\ ~BadMatch(m)
          \/ ~Matches(m) /\ _is_math_invariant_op(module_type[m])
    /\ Cardinality({m \in Modules : Matches(m)}) >= 2

MostDownstream == CHOOSE m \in Modules : Matches(m) /\ \A k \in Modules : Matches(k) => k <= m

\* C10: after one call on such a chain every matching module's output
\* quantizer slot holds the quantizer the most downstream matching module
\* held before the call, and a second call with the same selector changes
\* no slot.
C10_ChainConverges ==
    MatchingChain
        => /\ err = NoError
           /\ \A m \in Modules :
                 Matches(m) => output_quantizers[m] = <<last.outq[MostDownstream][1]>>
           /\ LET again == _propagate_output_encodings(connected_graph,
                               module_type, input_quantizers,
                               output_quantizers, last.condition) IN
              /\ again.err = NoError
              /\ again.inq = input_quantizers
              /\ again.outq = output_quantizers

C10_Witness ==
    /\ MatchingChain
    /\ Cardinality({m \in Modules : Matches(m)}) = 3
    /\ \A m \in Modules : last.outq[m] = <<QOut(m, 0)>>
    /\ \A m \in Modules : output_quantizers[m] = <<QOut(3, 0)>>

(***************************************************************************)
(* Properties of the backward walk on graphs with two-input ops.           *)
(***************************************************************************)

InputsOfOp(c) == connected_graph.ordered_ops[c].inputs

HasModule(p) == connected_graph.ordered_ops[p].module # None

\* The producers of the inputs of the ops in S
ProducersInto(S) ==
    {p \in Ops : \E c \in S : \E k \in DOMAIN InputsOfOp(c) :
                    InputsOfOp(c)[k].producer = p}

RECURSIVE BackwardClosure(_, _)
\* The ops of S and every op that feeds one of them through ops of Through
BackwardClosure(S, Through) ==
    LET more == S \cup (ProducersInto(S) \cap Through) IN
    IF more = S THEN S ELSE BackwardClosure(more, Through)

MathInvariantModules ==
    {p \in Ops : HasModule(p) /\ _is_math_invariant_op(module_type[p])}

\* m is the one module the selector matches, and holds one set output
\* quantizer
OnlyMatch(m) ==
    /\ Propagated /\ Traced
    /\ \A k \in Modules : Matches(k) <=> k = m
    /\ ~BadMatch(m)

\* C4 (as stated): the output quantizer of the matching module is assigned
\* to the consumer's input quantizer slot of every root input that reaches
\* the module through a chain of math-invariant ops.
C4_AsStated ==
    \A m \in Modules :
        OnlyMatch(m)
            => \A c \in BackwardClosure({m}, MathInvariantModules) :
                  \A k \in DOMAIN InputsOfOp(c) :
                     InputsOfOp(c)[k].producer = None
                        => input_quantizers[c][k] = last.outq[m][1]

\* C4 (amended): in a call whose selector matches only that module, the
\* quantizer is assigned to the consumer's slot of every root input that
\* carries a shape; the slot of a root input without a shape is left as it
\* was.
C4_TensorRootInputsGetQuantizer ==
    \A m \in Modules :
        OnlyMatch(m)
            => /\ err = NoError
               /\ \A c \in BackwardClosure({m}, MathInvariantModules) :
                     \A k \in DOMAIN InputsOfOp(c) :
                        InputsOfOp(c)[k].producer = None
                           => input_quantizers[c][k] =
                                IF InputsOfOp(c)[k].shape THEN last.outq[m][1]
                                ELSE last.inq[c][k]

C4_Witness ==
    \E m \in Modules :
        /\ OnlyMatch(m)
        /\ \E c \in BackwardClosure({m}, MathInvariantModules) \ {m} :
              /\ Len(InputsOfOp(c)) = 2
              /\ InputsOfOp(c)[1].producer = None /\ ~InputsOfOp(c)[1].shape
              /\ InputsOfOp(c)[2].producer = None /\ InputsOfOp(c)[2].shape
              /\ input_quantizers[c] = <<None, last.outq[m][1]>>
              /\ \E b \in BackwardClosure({m}, MathInvariantModules) \ {m, c} :
                    input_quantizers[b] # last.inq[b]

(***************************************************************************)
(* Graphs with skip connections, of convolutions with and without an       *)
(* output quantizer, reshapes and functional ops.                          *)
(***************************************************************************)
SkipOptions ==
    {Opt("Functional", FALSE, FALSE), Opt("Conv", TRUE, FALSE),
     Opt("Conv", FALSE, FALSE), Opt("Reshape", FALSE, FALSE)}

InitSkip == InitAll(SkipOptions, "skip", {TRUE}, DefaultAttrs)

SpecSkip == InitSkip /\ [][PropagatePredicate]_vars

\* The ops the walk passes through: those without a quantized module and
\* the math-invariant modules
PassedThrough == {p \in Ops : ~HasModule(p)} \cup MathInvariantModules

\* The ops whose inputs the walks of a call visit, as consumers
Entered == BackwardClosure({m \in Modules : Matches(m)}, PassedThrough)

\* The quantizers the selector's modules held before the call
MatchedQuantizers ==
    UNION {{last.outq[m][i] : i \in DOMAIN last.outq[m]}
           : m \in {k \in Modules : Matches(k)}} \ {None}

\* C8: the walk goes on only through producers without a quantized module
\* or with a math-invariant one.  A slot is changed only if it is the
\* output slot of a producer of an input the walks visit, and was not
\* empty, or an input slot of an op the walks enter; so a producer with a
\* quantized module that is not math-invariant, when the selector does not
\* match it, keeps its input slots, and no slot of an op reached only
\* through it is changed.
C8_WalkStopsAtQuantizedProducer ==
    (Propagated /\ Traced)
        => \A k \in Modules :
              /\ \A i \in DOMAIN output_quantizers[k] :
                    /\ last.outq[k][i] = None => output_quantizers[k][i] = None
                    /\ output_quantizers[k][i] # last.outq[k][i]
                          => /\ k \in ProducersInto(Entered)
                             /\ output_quantizers[k][i] \in MatchedQuantizers
              /\ input_quantizers[k] # last.inq[k] => k \in Entered

C8_Witness ==
    /\ Propagated /\ Traced /\ err = NoError
    /\ Len(connected_graph.ordered_ops) = 3
    /\ module_type = <<"Conv", "Conv", "Conv">>
    /\ InputsOfOp(3)[1].producer = 2 /\ InputsOfOp(2)[1].producer = 1
    /\ Entered = {3}
    /\ last.outq = <<(<<QOut(1, 0)>>), (<<QOut(2, 0)>>), (<<QOut(3, 0)>>)>>
    /\ output_quantizers = <<(<<QOut(1, 0)>>), (<<QOut(3, 0)>>), (<<QOut(3, 0)>>)>>
    /\ input_quantizers = last.inq

(***************************************************************************)
(* Propagation over graphs of concats and splits.                          *)
(***************************************************************************)
VariadicOptions == {Opt("Concat", TRUE, FALSE), Opt("Split", TRUE, FALSE)}

InitVariadic == InitAll(VariadicOptions, "spine", {TRUE}, DefaultAttrs)

SpecVariadic == InitVariadic /\ [][PropagateModule]_vars

\* C6: every access of the walk to an input quantizer of a concat and to
\* an output quantizer of a split is to slot 0, which the module declares,
\* whatever the position of the tensor: a concat that alone matches gets
\* its quantizer in input slot 0 for a tensor root input at any position,
\* and a split whose output, first or second, the matching module reads
\* gets the quantizer in output slot 0.
C6_VariadicSlotZero ==
    (Propagated /\ Traced)
        => /\ \A a \in last.touched :
                 (\/ module_type[a.module] = "Concat" /\ a.side = "in"
                  \/ module_type[a.module] = "Split" /\ a.side = "out")
                 => /\ a.index = 0
                    /\ Len(IF a.side = "in" THEN last.inq[a.module]
                           ELSE last.outq[a.module]) = 1
           /\ \A m \in Modules :
                 OnlyMatch(m)
                    => \A k \in DOMAIN InputsOfOp(m) :
                          LET x == InputsOfOp(m)[k] IN
                          /\ (module_type[m] = "Concat" /\ x.producer = None /\ x.shape)
                                => input_quantizers[m] = <<last.outq[m][1]>>
                          /\ (x.producer # None /\ module_type[x.producer] = "Split")
                                => output_quantizers[x.producer] = <<last.outq[m][1]>>

C6_Witness ==
    /\ Propagated /\ Traced /\ Len(connected_graph.ordered_ops) = 2
    /\ OnlyMatch(2) /\ err = NoError
    /\ module_type[1] = "Split" /\ module_type[2] = "Concat"
    /\ Len(InputsOfOp(2)) = 2
    /\ InputsOfOp(2)[1] = [producer |-> 1, idx |-> 1, shape |-> TRUE]
    /\ InputsOfOp(2)[2] = [producer |-> None, idx |-> 0, shape |-> TRUE]
    /\ last.touched = {[module |-> 2, side |-> "out", index |-> 0],
                       [module |-> 1, side |-> "out", index |-> 0],
                       [module |-> 2, side |-> "in", index |-> 0]}
    /\ input_quantizers[2] = <<QOut(2, 0)>>
    /\ output_quantizers[1] = <<QOut(2, 0)>>

(***************************************************************************)
(* Graphs of functional ops, convolutions and MatMuls that end in a MatMul *)
(* whose second input is any product of the graph.                         *)
(***************************************************************************)
ProducerOptions ==
    {Opt("Functional", FALSE, FALSE), Opt("Conv", TRUE, FALSE),
     Opt("Conv", FALSE, FALSE), Opt("MatMul", TRUE, FALSE)}

\* The designs that close design d with a MatMul whose first input is an
\* output of the last op and whose second input is any product
WithMatMul(d) ==
    {Append(d, [kind |-> "MatMul", out |-> TRUE, inq |-> q, inputs |-> <<a, b>>])
        : q \in BOOLEAN, a \in MainInputs(KindsOf(d)), b \in Available(KindsOf(d))}

MatMulAttrs == {[bitwidth |-> 16, symmetric |-> FALSE, signed |-> FALSE],
                [bitwidth |-> 4, symmetric |-> TRUE, signed |-> FALSE]}

RECURSIVE InitMatMulFrom(_, _)
InitMatMulFrom(d, n) ==
    IF Len(d) = n THEN \E c \in WithMatMul(d) : InitOf(c, {TRUE}, MatMulAttrs)
    ELSE \E od \in NextDesigns(d, ProducerOptions, "feed") :
            InitMatMulFrom(Append(d, od), n)

InitMatMul == \E n \in 1..MaxOps : InitMatMulFrom(<<>>, n)

SpecMatMul == InitMatMul /\ [][SetMatMul]_vars

(***************************************************************************)
(* Properties of set_matmul_second_input_producer_to_8bit_symmetric.       *)
(***************************************************************************)

MatMulCalled == last.call = "matmul"

MatMuls == {m \in Modules : module_type[m] = "MatMul"}

EightBitSymmetricSigned(q) ==
    qattrs[q].bitwidth = 8 /\ qattrs[q].symmetric /\ qattrs[q].signed

\* The op that produces the second input of MatMul m (None for a root input)
SecondInputProducer(m) == InputsOfOp(m)[2].producer

\* The second input slot of MatMul m is empty and its second input is
\* produced by a quantized module whose output quantizer 0 is set
DirectlyFedByQuantizedProducer(m) ==
    /\ MatMulCalled
    /\ last.inq[m][2] = None
    /\ SecondInputProducer(m) # None
    /\ HasModule(SecondInputProducer(m))
    /\ last.outq[SecondInputProducer(m)][1] # None

\* C2 (as stated): the producer's output quantizer 0 is assigned to the
\* MatMul's second input quantizer slot and is 8-bit symmetric signed
\* afterwards.
C2_AsStated ==
    \A m \in MatMuls :
        DirectlyFedByQuantizedProducer(m)
            => /\ input_quantizers[m][2] = output_quantizers[SecondInputProducer(m)][1]
               /\ EightBitSymmetricSigned(output_quantizers[SecondInputProducer(m)][1])

\* C2 (amended): the producer's output quantizer 0 is taken as the target
\* and is 8-bit symmetric signed afterwards; it stays in the producer's
\* output slot, and the MatMul's second input quantizer slot stays empty.
C2_ProducerQuantizerCoercedSlotLeftEmpty ==
    \A m \in MatMuls :
        DirectlyFedByQuantizedProducer(m)
            => /\ err = NoError
               /\ last.targets[m].target = last.outq[SecondInputProducer(m)][1]
               /\ output_quantizers[SecondInputProducer(m)] = last.outq[SecondInputProducer(m)]
               /\ EightBitSymmetricSigned(output_quantizers[SecondInputProducer(m)][1])
               /\ input_quantizers[m][2] = None

C2_Witness ==
    \E m \in MatMuls :
        /\ DirectlyFedByQuantizedProducer(m)
        /\ module_type[SecondInputProducer(m)] = "Conv"
        /\ ~last.qattrs[last.outq[SecondInputProducer(m)][1]].signed
        /\ EightBitSymmetricSigned(last.outq[SecondInputProducer(m)][1])
        /\ input_quantizers[m][2] = None

\* C5: a quantizer already assigned to a MatMul's second input slot stays
\* in the slot, and its bitwidth, symmetric and signed fields are 8, true
\* and true after the call, whatever they were.
C5_AssignedSlotKeptAndCoerced ==
    MatMulCalled
        => \A m \in MatMuls :
              last.inq[m][2] # None
                 => /\ input_quantizers[m][2] = last.inq[m][2]
                    /\ EightBitSymmetricSigned(input_quantizers[m][2])

C5_Witness ==
    /\ MatMulCalled
    /\ \E m \in MatMuls :
          /\ last.inq[m][2] # None
          /\ last.qattrs[last.inq[m][2]] =
                [bitwidth |-> 4, symmetric |-> TRUE, signed |-> FALSE]
          /\ input_quantizers[m][2] = last.inq[m][2]
          /\ EightBitSymmetricSigned(last.inq[m][2])

\* One step of the search: from u to v
SearchStep(u, v) ==
    LET input_ops == connected_graph.ordered_ops[u].input_ops IN
    IF HasModule(u)
    THEN last.outq[u][1] = None /\ input_ops = <<v>>
    ELSE input_ops # <<>> /\ input_ops[1] = v

\* The search returns the module of u
SearchFinds(u) == HasModule(u) /\ last.outq[u][1] # None

\* The search gives up at u
SearchGivesUp(u) ==
    LET input_ops == connected_graph.ordered_ops[u].input_ops IN
    IF HasModule(u)
    THEN last.outq[u][1] = None /\ Len(input_ops) # 1
    ELSE input_ops = <<>>

\* The ops of S, from op p down, form the path of a search started at p
\* that ends at op e
SearchPath(S, p, e) ==
    /\ p \in S /\ e \in S
    /\ \A u \in S : e <= u /\ u <= p
    /\ \A u \in S \ {e} :
          SearchStep(u, CHOOSE v \in S : v < u /\ \A w \in S : w < u => w <= v)

\* The quantizers a call resolves as targets
ResolvedTargets ==
    {last.targets[m].target : m \in DOMAIN last.targets} \ {None}

\* C9: each search returns nothing or a quantized module whose output
\* quantizer 0 is set, the first one on the path from the start op that
\* steps to the single input op of a quantized op with an empty output
\* slot 0 and to the first input op of an op without a quantized module;
\* it returns nothing when the path reaches a quantized op with an empty
\* output slot 0 and no or several input ops, or an op without a quantized
\* module and without input ops.  A search that returns nothing changes no
\* slot and no quantizer field, and every MatMul is still processed: every
\* resolved target is 8-bit symmetric signed, and no other quantizer is
\* changed.
C9_ClosestProducerSearch ==
    MatMulCalled
        => /\ err = NoError
           /\ DOMAIN last.targets = MatMuls
           /\ SlotsUnchanged
           /\ \A m \in MatMuls :
                 LET t == last.targets[m] IN
                 /\ t.searched <=> (last.inq[m][2] = None /\ SecondInputProducer(m) # None)
                 /\ t.searched =>
                       \E S \in SUBSET (1..t.start) :
                          IF t.closest # None
                          THEN SearchPath(S, t.start, t.closest) /\ SearchFinds(t.closest)
                               /\ t.target = last.outq[t.closest][1]
                          ELSE \E e \in S : SearchPath(S, t.start, e) /\ SearchGivesUp(e)
                                            /\ t.target = None
                 /\ ~t.searched => t.closest = None /\ t.target = last.inq[m][2]
           /\ \A q \in DOMAIN qattrs :
                 IF q \in ResolvedTargets THEN EightBitSymmetricSigned(q)
                 ELSE qattrs[q] = last.qattrs[q]

C9_Witness ==
    /\ MatMulCalled /\ err = NoError
    /\ Len(connected_graph.ordered_ops) = 4
    /\ module_type = <<"Conv", "MatMul", "Functional", "MatMul">>
    /\ last.outq[1] = <<None>>
    /\ connected_graph.ordered_ops[3].input_ops = <<2, 1>>
    /\ last.targets[2] = [searched |-> TRUE, start |-> 1, closest |-> None,
                          target |-> None]
    /\ last.targets[4] = [searched |-> TRUE, start |-> 3, closest |-> 2,
                          target |-> QOut(2, 0)]
    /\ EightBitSymmetricSigned(QOut(2, 0))
    /\ ~EightBitSymmetricSigned(QOut(4, 0))
    /\ qattrs[QOut(4, 0)] = last.qattrs[QOut(4, 0)]
    /\ SlotsUnchanged

====
